---- MODULE Spec2Model ----
(***************************************************************************)
(* A model of git-visualiser: the interactive browse state (ui::App), the  *)
(* control loop of main.rs that drives it from key events, the external    *)
(* version-control collaborator (git::GitManager) and the result cache     *)
(* (cache::Cache) that main constructs.                                    *)
(*                                                                         *)
(* Indices (selected_index, branch_selector_index) are 0-based as in the   *)
(* source; a TLA+ sequence s is read at position i as s[i + 1].            *)
(***************************************************************************)
EXTENDS Integers, Sequences, FiniteSets, TLC

VARIABLES
    pc,           \* position of main: a startup step, "loop", "api", or an exit
    app,          \* the ui::App value
    cache,        \* the cache::Cache value
    now,          \* the wall clock, in seconds
    last_fetch,   \* the most recent successful get_commits: its branch and time (history)
    last_op,      \* the last key handled / method called, its argument, its data source
    message,      \* the last message printed with println!
    raw_mode,     \* terminal raw mode is enabled
    alt_screen,   \* the terminal is on the alternate screen
    set_log,      \* per keyspace and key, the most recent set since the last clear (history)
    parse         \* the diff parsing loop of draw_commit_details: input, position, locals

vars == <<pc, app, cache, now, last_fetch, last_op, message, raw_mode, alt_screen,
          set_log, parse>>

-----------------------------------------------------------------------------
(* Bounds of the model *)

MaxBranches == 2      \* longest branch list the collaborator returns
MaxCommits == 2       \* longest commit list the collaborator returns
MaxTime == 300        \* the clock stops advancing here
MaxClock == 2         \* the clock of the cache runs stops advancing here
MaxLines == 3         \* longest diff text, in lines

BranchNames == {"main", "master", "dev"}
TickSteps == {300}

-----------------------------------------------------------------------------
(* Helpers *)

\* usize::saturating_sub
saturating_sub(a, b) == IF a >= b THEN a - b ELSE 0

\* i32 arithmetic (the model checker's integers are themselves 32-bit, so
\* overflow is detected and wrapped without leaving the i32 range)
I32Max == 2147483647
I32Min == -I32Max - 1

\* The directions tried for navigate_branch_selector(direction: i32)
Directions == {I32Min, -2, -1, 0, 1, 2, I32Max}

\* a + b leaves the i32 range
OverflowsI32(a, b) ==
    \/ b > 0 /\ a > I32Max - b
    \/ b < 0 /\ a < I32Min - b

\* i32::wrapping_add: a + b modulo 2^32, read as two's complement
wrapping_add(a, b) ==
    IF b > 0 /\ a > I32Max - b THEN (a - I32Max - 1) + (b - I32Max - 1)
    ELSE IF b < 0 /\ a < I32Min - b THEN (a + I32Max + 1) + (b + I32Max + 1)
    ELSE a + b

\* Iterator::position: the 0-based index of the first element equal to x, -1 for None
position(s, x) ==
    IF \E i \in 1..Len(s) : s[i] = x
    THEN (CHOOSE i \in 1..Len(s) : s[i] = x /\ \A j \in 1..(i - 1) : s[j] # x) - 1
    ELSE -1

\* Option::unwrap_or
unwrap_or(opt, default) == IF opt = -1 THEN default ELSE opt

\* Sequences without repetition over S, of length at most n (local branch names are unique refs)
InjectiveSeqs(S, n) ==
    UNION { { s \in [1..k -> S] : \A i, j \in 1..k : i # j => s[i] # s[j] } : k \in 0..n }

BranchLists == InjectiveSeqs(BranchNames, MaxBranches)

-----------------------------------------------------------------------------
(* git::GitManager, the external collaborator.  Its answers depend on the   *)
(* repository on disk, which other processes may change at any time, so    *)
(* each call is answered nondeterministically from a bounded set.          *)

\* get_commits(branch) = Ok(list): a history of n commits, most recent first;
\* a commit is identified by its branch and position
CommitList(branch, n) == [i \in 1..n |-> <<branch, i>>]

\* The possible results of get_commits(branch): Ok(list) or Err
GetCommitsResults(branch) ==
    { [ok |-> TRUE, commits |-> CommitList(branch, n)] : n \in 0..MaxCommits }
    \cup { [ok |-> FALSE, commits |-> <<>>] }

\* The possible results of get_branches(): Ok(list) or Err
GetBranchesResults ==
    { [ok |-> TRUE, branches |-> bs] : bs \in BranchLists }
    \cup { [ok |-> FALSE, branches |-> <<>>] }

-----------------------------------------------------------------------------
(* cache::Cache *)

\* A HashMap is a function whose domain is the set of keys inserted; a
\* CacheEntry is [data, timestamp]

\* Option::None, the result of a get that misses
NoEntry == [present |-> FALSE]

\* Option::Some(&entry.data)
Some(data) == [present |-> TRUE, data |-> data]

\* HashMap::insert
Insert(m, k, e) == [x \in (DOMAIN m) \cup {k} |-> IF x = k THEN e ELSE m[x]]

\* No set has happened, and no clear
NoSets == [commits |-> <<>>, authors |-> <<>>, branches |-> <<>>, cleared |-> FALSE]

CacheNew ==
    [ commits |-> <<>>,
      authors |-> <<>>,
      branches |-> <<>>,
      cache_duration |-> 300 ]

\* Duration::MAX, above every duration of the model
DurationMax == I32Max

\* SystemTime::elapsed at clock t: Ok(t - timestamp), or Err when the clock
\* reads earlier than the timestamp
elapsed(timestamp, t) ==
    IF t >= timestamp THEN [ok |-> TRUE, secs |-> t - timestamp]
    ELSE [ok |-> FALSE, secs |-> 0]

\* Result<Duration, _>::unwrap_or_default: an Err reads as no time elapsed
unwrap_or_default_duration(res, default) == IF res.ok THEN res.secs ELSE 0

\* Result<Duration, _>::unwrap_or
unwrap_or_duration(res, default) == IF res.ok THEN res.secs ELSE default

get_commits_inclusive(c, branch, t) ==
    IF branch \in DOMAIN c.commits
       /\ unwrap_or_duration(elapsed(c.commits[branch].timestamp, t), DurationMax)
              <= c.cache_duration
    THEN Some(c.commits[branch].data)
    ELSE NoEntry

get_commits(c, branch, t) ==
    IF branch \in DOMAIN c.commits
       /\ unwrap_or_duration(elapsed(c.commits[branch].timestamp, t), DurationMax)
              < c.cache_duration
    THEN Some(c.commits[branch].data)
    ELSE NoEntry

set_commits(c, branch, commits, t) ==
    [c EXCEPT !.commits = Insert(@, branch, [data |-> commits, timestamp |-> t])]

get_authors(c, repo_path, t) ==
    IF repo_path \in DOMAIN c.authors
       /\ unwrap_or_duration(elapsed(c.authors[repo_path].timestamp, t), DurationMax)
              < c.cache_duration
    THEN Some(c.authors[repo_path].data)
    ELSE NoEntry

set_authors_into_branches(c, repo_path, authors, t) ==
    [c EXCEPT !.branches = Insert(@, repo_path, [data |-> authors, timestamp |-> t])]

set_authors(c, repo_path, authors, t) ==
    [c EXCEPT !.authors = Insert(@, repo_path, [data |-> authors, timestamp |-> t])]

get_branches(c, repo_path, t) ==
    IF repo_path \in DOMAIN c.branches
       /\ unwrap_or_duration(elapsed(c.branches[repo_path].timestamp, t), DurationMax)
              < c.cache_duration
    THEN Some(c.branches[repo_path].data)
    ELSE NoEntry

set_branches(c, repo_path, branches, t) ==
    [c EXCEPT !.branches = Insert(@, repo_path, [data |-> branches, timestamp |-> t])]

clear_keeps_branches(c) ==
    [c EXCEPT !.commits = <<>>, !.authors = <<>>]

clear(c) ==
    [c EXCEPT !.commits = <<>>, !.authors = <<>>, !.branches = <<>>]

\* set_cache_duration that also drops the stored entries
set_cache_duration_clearing(c, duration) ==
    [clear(c) EXCEPT !.cache_duration = duration]

set_cache_duration(c, duration) == [c EXCEPT !.cache_duration = duration]

-----------------------------------------------------------------------------
(* ui::App *)

\* No diff is being parsed
NoParse == [state |-> "idle"]

AppNew ==
    [ commits |-> <<>>,
      selected_index |-> 0,
      current_branch |-> "main",
      branches |-> <<>>,
      search_mode |-> FALSE,
      show_author_filter |-> FALSE,
      show_branch_selector |-> FALSE,
      branch_selector_index |-> 0 ]

\* The App literal main builds once the startup queries succeeded
AppCreate(commits, current_branch, branches) ==
    [ commits |-> commits,
      selected_index |-> 0,
      current_branch |-> current_branch,
      branches |-> branches,
      search_mode |-> FALSE,
      show_author_filter |-> FALSE,
      show_branch_selector |-> FALSE,
      branch_selector_index |-> 0 ]

toggle_author_filter(a) ==
    [a EXCEPT !.show_author_filter = ~a.show_author_filter]

toggle_branch_selector_stale(a) ==
    [a EXCEPT !.show_branch_selector = ~a.show_branch_selector]

toggle_branch_selector(a) ==
    LET shown == ~a.show_branch_selector IN
    IF shown
    THEN [a EXCEPT !.show_branch_selector = TRUE,
                   !.branch_selector_index =
                       unwrap_or(position(a.branches, a.current_branch), 0)]
    ELSE [a EXCEPT !.show_branch_selector = FALSE]

\* select_branch returns (bool, new state)
select_branch(a, index) ==
    IF index < Len(a.branches)
    THEN [ok |-> TRUE,
          app |-> [a EXCEPT !.current_branch = a.branches[index + 1],
                            !.branch_selector_index = index]]
    ELSE [ok |-> FALSE, app |-> a]

\* `usize as i32`: the identity on the index and length values of the model,
\* which are far below 2^31
as_i32(n) == n

navigate_branch_selector_unchecked(a, direction) ==
    LET new_index == wrapping_add(as_i32(a.branch_selector_index), direction) IN
    IF new_index >= 0
    THEN [a EXCEPT !.branch_selector_index = new_index]
    ELSE a

navigate_branch_selector(a, direction) ==
    LET new_index == wrapping_add(as_i32(a.branch_selector_index), direction) IN
    IF new_index >= 0 /\ new_index < as_i32(Len(a.branches))
    THEN [a EXCEPT !.branch_selector_index = new_index]
    ELSE a

start_search(a) == [a EXCEPT !.search_mode = TRUE]

navigate_up(a) ==
    IF a.selected_index > 0
    THEN [a EXCEPT !.selected_index = a.selected_index - 1]
    ELSE a

navigate_down_unsaturated(a) ==
    IF a.selected_index <= saturating_sub(Len(a.commits), 1)
    THEN [a EXCEPT !.selected_index = a.selected_index + 1]
    ELSE a

navigate_down(a) ==
    IF a.selected_index < saturating_sub(Len(a.commits), 1)
    THEN [a EXCEPT !.selected_index = a.selected_index + 1]
    ELSE a

navigate_left(a) == a

navigate_right(a) == a

\* draw_ui: which view is painted
view_mode(a) ==
    IF a.show_branch_selector THEN "BranchSelector"
    ELSE IF a.show_author_filter THEN "AuthorFilter"
    ELSE "CommitList"

-----------------------------------------------------------------------------
(* main.rs: startup (lines 26-115) *)

\* No get_commits has succeeded yet
NoFetch == [branch |-> "none", time |-> -1]

NoOp == [op |-> "none", arg |-> 0, src |-> "none"]
Op(name, arg, src) == [op |-> name, arg |-> arg, src |-> src]

Init ==
    /\ pc = "start"
    /\ app = AppNew
    /\ cache = CacheNew
    /\ set_log = NoSets
    /\ parse = NoParse
    /\ now = 0
    /\ last_fetch = NoFetch
    /\ last_op = NoOp
    /\ message = "none"
    /\ raw_mode = FALSE
    /\ alt_screen = FALSE

\* lines 27-32: enable_raw_mode()?, execute!(EnterAlternateScreen, ..)?, Terminal::new()?
SetupTerminal ==
    /\ pc = "start"
    /\ \E raw_ok, screen_ok, term_ok, partial \in BOOLEAN :
         IF ~raw_ok
         THEN /\ pc' = "exit_err"
              /\ UNCHANGED <<raw_mode, alt_screen>>
         ELSE IF ~screen_ok
         THEN /\ pc' = "exit_err"
              /\ raw_mode' = TRUE
              /\ alt_screen' = partial
         ELSE /\ raw_mode' = TRUE
              /\ alt_screen' = TRUE
              /\ pc' = IF term_ok THEN "open_repo" ELSE "exit_err"
    /\ UNCHANGED <<app, cache, set_log, parse, now, last_fetch, last_op, message>>

\* lines 35-51: current_dir()?, the .git check, GitManager::new, Cache::new
OpenRepository ==
    /\ pc = "open_repo"
    /\ \E dir_ok, has_git, open_ok \in BOOLEAN :
         IF ~dir_ok
         THEN pc' = "exit_err" /\ UNCHANGED message
         ELSE IF ~has_git
         THEN pc' = "exit_ok" /\ message' = "not_a_repository"
         ELSE IF ~open_ok
         THEN pc' = "exit_ok" /\ message' = "open_failed"
         ELSE pc' = "get_branches" /\ UNCHANGED message
    /\ cache' = CacheNew
    /\ UNCHANGED <<set_log, parse>>
    /\ UNCHANGED <<app, now, last_fetch, last_op, raw_mode, alt_screen>>

\* lines 54-77: get_branches and the choice of current_branch; the locals
\* `branches` and `current_branch` are kept in the fields of app they initialise
LoadBranches ==
    /\ pc = "get_branches"
    /\ \E r \in GetBranchesResults, main_exists, master_exists \in BOOLEAN :
         IF ~r.ok
         THEN pc' = "exit_ok" /\ message' = "get_branches_failed" /\ UNCHANGED app
         ELSE IF r.branches = <<>> /\ ~main_exists /\ ~master_exists
         THEN pc' = "exit_ok" /\ message' = "no_valid_branches" /\ UNCHANGED app
         ELSE /\ pc' = "get_authors"
              /\ message' = "using_branch"
              /\ app' = [app EXCEPT
                    !.branches = r.branches,
                    !.current_branch =
                        IF r.branches = <<>>
                        THEN (IF main_exists THEN "main" ELSE "master")
                        ELSE r.branches[1]]
    /\ UNCHANGED <<cache, set_log, parse, now, last_fetch, last_op, raw_mode, alt_screen>>

\* lines 80-86: get_authors
LoadAuthors ==
    /\ pc = "get_authors"
    /\ \E ok \in BOOLEAN :
         IF ok
         THEN pc' = "get_commits" /\ UNCHANGED message
         ELSE pc' = "exit_ok" /\ message' = "get_authors_failed"
    /\ UNCHANGED <<app, cache, set_log, parse, now, last_fetch, last_op, raw_mode, alt_screen>>

LoadCommits_without_empty_check ==
    /\ pc = "get_commits"
    /\ \E r \in GetCommitsResults(app.current_branch) :
         IF ~r.ok
         THEN /\ pc' = "exit_ok" /\ message' = "get_commits_failed"
              /\ UNCHANGED <<app, last_fetch>>
         ELSE /\ pc' = "loop"
              /\ app' = AppCreate(r.commits, app.current_branch, app.branches)
              /\ last_fetch' = [branch |-> app.current_branch, time |-> now]
              /\ UNCHANGED message
    /\ UNCHANGED <<cache, set_log, parse, now, last_op, raw_mode, alt_screen>>

\* lines 89-115: get_commits(&current_branch) and the App literal
LoadCommits ==
    /\ pc = "get_commits"
    /\ \E r \in GetCommitsResults(app.current_branch) :
         IF ~r.ok
         THEN /\ pc' = "exit_ok" /\ message' = "get_commits_failed"
              /\ UNCHANGED <<app, last_fetch>>
         ELSE IF r.commits = <<>>
         THEN /\ pc' = "exit_ok" /\ message' = "no_commits"
              /\ last_fetch' = [branch |-> app.current_branch, time |-> now]
              /\ UNCHANGED app
         ELSE /\ pc' = "loop"
              /\ app' = AppCreate(r.commits, app.current_branch, app.branches)
              /\ last_fetch' = [branch |-> app.current_branch, time |-> now]
              /\ UNCHANGED message
    /\ UNCHANGED <<cache, set_log, parse, now, last_op, raw_mode, alt_screen>>

-----------------------------------------------------------------------------
(* main.rs: the loop (lines 121-180) and cleanup (lines 183-191) *)

\* A call of navigate_branch_selector: the i32 addition panics when overflow
\* checks are compiled in (debug profile) and wraps otherwise (release profile)
CallNavigateBranchSelector(direction) ==
    IF OverflowsI32(as_i32(app.branch_selector_index), direction)
    THEN \/ pc' = "panic" /\ app' = app
         \/ pc' = pc /\ app' = navigate_branch_selector(app, direction)
    ELSE pc' = pc /\ app' = navigate_branch_selector(app, direction)

\* The App after the Enter arm, given the collaborator's answer r to the
\* get_commits call it makes when select_branch returned true
enter_keep_index(a, r) ==
    IF ~a.show_branch_selector THEN a
    ELSE LET s == select_branch(a, a.branch_selector_index) IN
         IF ~s.ok THEN a
         ELSE LET fetched == IF r.ok THEN [s.app EXCEPT !.commits = r.commits]
                             ELSE s.app
              IN [fetched EXCEPT !.show_branch_selector = FALSE]

enter(a, r) ==
    IF ~a.show_branch_selector THEN a
    ELSE LET s == select_branch(a, a.branch_selector_index) IN
         IF ~s.ok THEN a
         ELSE LET fetched == IF r.ok
                             THEN [s.app EXCEPT !.commits = r.commits,
                                                !.selected_index = 0]
                             ELSE s.app
              IN [fetched EXCEPT !.show_branch_selector = FALSE]

\* Whether the Enter arm reaches the get_commits call of line 155
enter_queries(a) ==
    a.show_branch_selector /\ select_branch(a, a.branch_selector_index).ok

\* The Esc arm
esc_branch_selector_only(a) == [a EXCEPT !.show_branch_selector = FALSE]

esc(a) == [a EXCEPT !.show_branch_selector = FALSE, !.show_author_filter = FALSE]

Frame == UNCHANGED <<cache, set_log, parse, now, last_fetch, message, raw_mode, alt_screen>>

KeyQ ==
    /\ pc = "loop"
    /\ last_op' = Op("q", 0, "none")
    /\ \E raw_ok, screen_ok, cursor_ok \in BOOLEAN :
         IF ~raw_ok
         THEN pc' = "exit_err" /\ UNCHANGED <<raw_mode, alt_screen>>
         ELSE /\ raw_mode' = FALSE
              /\ IF ~screen_ok
                 THEN pc' = "exit_err" /\ UNCHANGED alt_screen
                 ELSE /\ alt_screen' = FALSE
                      /\ pc' = IF cursor_ok THEN "exit_ok" ELSE "exit_err"
    /\ UNCHANGED <<app, cache, set_log, parse, now, last_fetch, message>>

KeyA ==
    /\ pc = "loop"
    /\ app' = toggle_author_filter(app)
    /\ last_op' = Op("a", 0, "none")
    /\ pc' = pc /\ Frame

KeyB ==
    /\ pc = "loop"
    /\ app' = toggle_branch_selector(app)
    /\ last_op' = Op("b", 0, "none")
    /\ pc' = pc /\ Frame

KeySlash ==
    /\ pc = "loop"
    /\ app' = start_search(app)
    /\ last_op' = Op("/", 0, "none")
    /\ pc' = pc /\ Frame

KeyUp ==
    /\ pc = "loop"
    /\ IF app.show_branch_selector
       THEN CallNavigateBranchSelector(-1)
       ELSE app' = navigate_up(app) /\ pc' = pc
    /\ last_op' = Op("Up", -1, "none")
    /\ Frame

\* The Down arm without the test of show_branch_selector
KeyDown_unrouted ==
    /\ pc = "loop"
    /\ app' = navigate_down(app) /\ pc' = pc
    /\ last_op' = Op("Down", 1, "none")
    /\ Frame

KeyDown ==
    /\ pc = "loop"
    /\ IF app.show_branch_selector
       THEN CallNavigateBranchSelector(1)
       ELSE app' = navigate_down(app) /\ pc' = pc
    /\ last_op' = Op("Down", 1, "none")
    /\ Frame

KeyLeft ==
    /\ pc = "loop"
    /\ app' = navigate_left(app)
    /\ last_op' = Op("Left", 0, "none")
    /\ pc' = pc /\ Frame

KeyRight ==
    /\ pc = "loop"
    /\ app' = navigate_right(app)
    /\ last_op' = Op("Right", 0, "none")
    /\ pc' = pc /\ Frame

KeyEnter ==
    /\ pc = "loop"
    /\ IF enter_queries(app)
       THEN LET target == app.branches[app.branch_selector_index + 1] IN
            \E r \in GetCommitsResults(target) :
              /\ app' = enter(app, r)
              /\ last_fetch' = IF r.ok THEN [branch |-> target, time |-> now]
                               ELSE last_fetch
              /\ message' = IF r.ok THEN message ELSE "get_commits_for_branch_failed"
              /\ last_op' = Op("Enter", 0, IF r.ok THEN "git_ok" ELSE "git_err")
       ELSE /\ app' = enter(app, [ok |-> FALSE, commits |-> <<>>])
            /\ last_op' = Op("Enter", 0, "none")
            /\ UNCHANGED <<last_fetch, message>>
    /\ UNCHANGED <<pc, cache, set_log, parse, now, raw_mode, alt_screen>>

KeyEsc ==
    /\ pc = "loop"
    /\ app' = esc(app)
    /\ last_op' = Op("Esc", 0, "none")
    /\ pc' = pc /\ Frame

\* any other key: the `_ => {}` arm
KeyOther ==
    /\ pc = "loop"
    /\ last_op' = Op("other", 0, "none")
    /\ UNCHANGED <<pc, app>> /\ Frame

\* time passes while the loop waits in event::poll
Tick ==
    /\ pc = "loop"
    /\ \E d \in TickSteps : now + d <= MaxTime /\ now' = now + d
    /\ UNCHANGED <<pc, app, cache, set_log, parse, last_fetch, last_op, message, raw_mode, alt_screen>>

\* terminal.draw, event::poll or event::read fails: `?` returns from main
LoopIoError ==
    /\ pc = "loop"
    /\ pc' = "exit_err"
    /\ UNCHANGED <<app, cache, set_log, parse, now, last_fetch, last_op, message, raw_mode, alt_screen>>

Next ==
    \/ SetupTerminal
    \/ OpenRepository
    \/ LoadBranches
    \/ LoadAuthors
    \/ LoadCommits
    \/ KeyQ
    \/ KeyA
    \/ KeyB
    \/ KeySlash
    \/ KeyUp
    \/ KeyDown
    \/ KeyLeft
    \/ KeyRight
    \/ KeyEnter
    \/ KeyEsc
    \/ KeyOther
    \/ Tick
    \/ LoopIoError

Spec == Init /\ [][Next]_vars

TypeOK ==
    /\ pc \in {"start", "open_repo", "get_branches", "get_authors", "get_commits",
               "loop", "api", "exit_ok", "exit_err", "panic"}
    /\ app.selected_index \in Nat
    /\ app.branch_selector_index \in Nat
    /\ app.current_branch \in BranchNames
    /\ now \in 0..MaxTime
    /\ raw_mode \in BOOLEAN /\ alt_screen \in BOOLEAN

-----------------------------------------------------------------------------
(* ui::App driven through its public methods with arbitrary arguments,      *)
(* starting from any App value main can build.                              *)

AppInit ==
    /\ pc = "api"
    /\ \E bs \in BranchLists, fallback \in {"main", "master"}, n \in 1..MaxCommits :
         LET cb == IF bs = <<>> THEN fallback ELSE bs[1] IN
         app = AppCreate(CommitList(cb, n), cb, bs)
    /\ cache = CacheNew
    /\ set_log = NoSets
    /\ parse = NoParse
    /\ now = 0
    /\ last_fetch = NoFetch
    /\ last_op = NoOp
    /\ message = "none"
    /\ raw_mode = FALSE
    /\ alt_screen = FALSE

ApiFrame == UNCHANGED <<cache, set_log, parse, now, last_fetch, message, raw_mode, alt_screen>>

ApiToggleAuthorFilter ==
    /\ pc = "api"
    /\ app' = toggle_author_filter(app)
    /\ last_op' = Op("toggle_author_filter", 0, "none")
    /\ pc' = pc /\ ApiFrame

ApiToggleBranchSelector ==
    /\ pc = "api"
    /\ app' = toggle_branch_selector(app)
    /\ last_op' = Op("toggle_branch_selector", 0, "none")
    /\ pc' = pc /\ ApiFrame

ApiSelectBranch ==
    /\ pc = "api"
    /\ \E index \in 0..MaxBranches :
         /\ app' = select_branch(app, index).app
         /\ last_op' = Op("select_branch", index, "none")
    /\ pc' = pc /\ ApiFrame

ApiNavigateBranchSelector ==
    /\ pc = "api"
    /\ \E direction \in Directions :
         /\ CallNavigateBranchSelector(direction)
         /\ last_op' = Op("navigate_branch_selector", direction, "none")
    /\ ApiFrame

ApiStartSearch ==
    /\ pc = "api"
    /\ app' = start_search(app)
    /\ last_op' = Op("start_search", 0, "none")
    /\ pc' = pc /\ ApiFrame

ApiNavigateUp ==
    /\ pc = "api"
    /\ app' = navigate_up(app)
    /\ last_op' = Op("navigate_up", 0, "none")
    /\ pc' = pc /\ ApiFrame

ApiNavigateDown ==
    /\ pc = "api"
    /\ app' = navigate_down(app)
    /\ last_op' = Op("navigate_down", 0, "none")
    /\ pc' = pc /\ ApiFrame

ApiNavigateLeft ==
    /\ pc = "api"
    /\ app' = navigate_left(app)
    /\ last_op' = Op("navigate_left", 0, "none")
    /\ pc' = pc /\ ApiFrame

ApiNavigateRight ==
    /\ pc = "api"
    /\ app' = navigate_right(app)
    /\ last_op' = Op("navigate_right", 0, "none")
    /\ pc' = pc /\ ApiFrame

AppNext ==
    \/ ApiToggleAuthorFilter
    \/ ApiToggleBranchSelector
    \/ ApiSelectBranch
    \/ ApiNavigateBranchSelector
    \/ ApiStartSearch
    \/ ApiNavigateUp
    \/ ApiNavigateDown
    \/ ApiNavigateLeft
    \/ ApiNavigateRight

AppSpec == AppInit /\ [][AppNext]_vars

-----------------------------------------------------------------------------
(* cache::Cache driven through its public methods, from Cache::new(), while *)
(* the clock advances.                                                      *)

CommitKeys == {"main", "dev"}       \* branch names used as keys
RepoPaths == {"main"}               \* repository paths used as keys
CacheValues == {"v1", "v2"}         \* the lists stored
Durations == {0, 1, 2}              \* arguments of set_cache_duration

CacheInit ==
    /\ pc = "cache"
    /\ app = AppNew
    /\ cache = CacheNew
    /\ set_log = NoSets
    /\ parse = NoParse
    /\ now = 0
    /\ last_fetch = NoFetch
    /\ last_op = NoOp
    /\ message = "none"
    /\ raw_mode = FALSE
    /\ alt_screen = FALSE

CacheFrame ==
    UNCHANGED <<pc, app, parse, last_fetch, last_op, message, raw_mode, alt_screen>>

\* The record of a set in the history
Logged(log, k, v, t) == Insert(log, k, [data |-> v, time |-> t])

CacheSetCommits ==
    /\ pc = "cache"
    /\ \E k \in CommitKeys, v \in CacheValues :
         /\ cache' = set_commits(cache, k, v, now)
         /\ set_log' = [set_log EXCEPT !.commits = Logged(@, k, v, now)]
    /\ UNCHANGED now /\ CacheFrame

CacheSetAuthors ==
    /\ pc = "cache"
    /\ \E k \in RepoPaths, v \in CacheValues :
         /\ cache' = set_authors(cache, k, v, now)
         /\ set_log' = [set_log EXCEPT !.authors = Logged(@, k, v, now)]
    /\ UNCHANGED now /\ CacheFrame

CacheSetBranches ==
    /\ pc = "cache"
    /\ \E k \in RepoPaths, v \in CacheValues :
         /\ cache' = set_branches(cache, k, v, now)
         /\ set_log' = [set_log EXCEPT !.branches = Logged(@, k, v, now)]
    /\ UNCHANGED now /\ CacheFrame

\* the gets take &self: they return a value and change nothing
CacheGetCommits ==
    /\ pc = "cache"
    /\ \E k \in CommitKeys : get_commits(cache, k, now).present \in BOOLEAN
    /\ UNCHANGED <<cache, set_log, now>> /\ CacheFrame

CacheGetAuthors ==
    /\ pc = "cache"
    /\ \E k \in RepoPaths : get_authors(cache, k, now).present \in BOOLEAN
    /\ UNCHANGED <<cache, set_log, now>> /\ CacheFrame

CacheGetBranches ==
    /\ pc = "cache"
    /\ \E k \in RepoPaths : get_branches(cache, k, now).present \in BOOLEAN
    /\ UNCHANGED <<cache, set_log, now>> /\ CacheFrame

CacheClear ==
    /\ pc = "cache"
    /\ cache' = clear(cache)
    /\ set_log' = [NoSets EXCEPT !.cleared = TRUE]
    /\ UNCHANGED now /\ CacheFrame

CacheSetDuration ==
    /\ pc = "cache"
    /\ \E d \in Durations : cache' = set_cache_duration(cache, d)
    /\ UNCHANGED <<set_log, now>> /\ CacheFrame

ClockAdvance ==
    /\ pc = "cache"
    /\ now < MaxClock
    /\ now' = now + 1
    /\ UNCHANGED <<cache, set_log>> /\ CacheFrame

CacheNext ==
    \/ CacheSetCommits
    \/ CacheSetAuthors
    \/ CacheSetBranches
    \/ CacheGetCommits
    \/ CacheGetAuthors
    \/ CacheGetBranches
    \/ CacheClear
    \/ CacheSetDuration
    \/ ClockAdvance

CacheSpec == CacheInit /\ [][CacheNext]_vars

\* The system clock is set back
ClockBack ==
    /\ pc = "cache"
    /\ now > 0
    /\ now' = now - 1
    /\ UNCHANGED <<cache, set_log>> /\ CacheFrame

ClockNext ==
    \/ CacheSetCommits
    \/ CacheSetAuthors
    \/ CacheSetBranches
    \/ CacheGetCommits
    \/ CacheGetAuthors
    \/ CacheGetBranches
    \/ CacheClear
    \/ CacheSetDuration
    \/ ClockAdvance
    \/ ClockBack

\* cache::Cache under a clock that may also move backwards
ClockSpec == CacheInit /\ [][ClockNext]_vars

\* The three keyspaces, their keys, and get by keyspace
Keyspaces == {"commits", "authors", "branches"}
KeysOf(space) == IF space = "commits" THEN CommitKeys ELSE RepoPaths
Get(c, space, k, t) ==
    IF space = "commits" THEN get_commits(c, k, t)
    ELSE IF space = "authors" THEN get_authors(c, k, t)
    ELSE get_branches(c, k, t)

-----------------------------------------------------------------------------
(* The diff parsing loop of draw_commit_details: the text of the focused    *)
(* commit's diff is read line by line into file_changes.  A string is a     *)
(* sequence of characters, so Len, SubSeq and \o apply to it.               *)

\* str::starts_with and str::ends_with
starts_with(s, p) == Len(s) >= Len(p) /\ SubSeq(s, 1, Len(p)) = p
ends_with(s, p) == Len(s) >= Len(p) /\ SubSeq(s, Len(s) - Len(p) + 1, Len(s)) = p

\* str::trim_start_matches: the pattern is removed from the front repeatedly
RECURSIVE trim_start_matches(_, _)
trim_start_matches(s, p) ==
    IF p # "" /\ starts_with(s, p)
    THEN trim_start_matches(SubSeq(s, Len(p) + 1, Len(s)), p)
    ELSE s

\* str::trim_end_matches: the pattern is removed from the back repeatedly
RECURSIVE trim_end_matches(_, _)
trim_end_matches(s, p) ==
    IF p # "" /\ ends_with(s, p)
    THEN trim_end_matches(SubSeq(s, 1, Len(s) - Len(p)), p)
    ELSE s

\* str::strip_prefix: the rest after the prefix, once, or None
strip_prefix(s, p) ==
    IF starts_with(s, p) THEN Some(SubSeq(s, Len(p) + 1, Len(s))) ELSE NoEntry

\* str::split(sep).collect() for a one-character separator: every separator cuts
RECURSIVE split(_, _)
split(s, sep) ==
    IF \E i \in 1..Len(s) : SubSeq(s, i, i) = sep
    THEN LET i == CHOOSE j \in 1..Len(s) :
                      /\ SubSeq(s, j, j) = sep
                      /\ \A k \in 1..(j - 1) : SubSeq(s, k, k) # sep
         IN  <<SubSeq(s, 1, i - 1)>> \o split(SubSeq(s, i + 1, Len(s)), sep)
    ELSE <<s>>

\* The decimal digits and the value of one
Digits == "0123456789"
is_digit(c) == \E i \in 1..Len(Digits) : SubSeq(Digits, i, i) = c
to_digit(c) == (CHOOSE i \in 1..Len(Digits) : SubSeq(Digits, i, i) = c) - 1

RECURSIVE digits_value(_, _)
digits_value(s, acc) ==
    IF s = "" THEN acc ELSE digits_value(Tail(s), acc * 10 + to_digit(Head(s)))

\* str::parse::<usize>: an optional '+' and then one or more digits
parse_usize(s) ==
    LET digits == IF starts_with(s, "+") THEN Tail(s) ELSE s
    IN  IF digits # "" /\ \A i \in 1..Len(digits) : is_digit(SubSeq(digits, i, i))
        THEN [ok |-> TRUE, value |-> digits_value(digits, 0)]
        ELSE [ok |-> FALSE]

\* The header line git writes for a file whose old path is X and new path is Y
Header(X, Y) == "diff --git a/" \o X \o " b/" \o Y

\* The pairs of paths of the header lines, and the lines a diff text is made of
HeaderPaths == {<<"f", "f">>, <<"a/x", "b/y">>, <<"my file", "my file">>}
HeaderLines == {Header(xy[1], xy[2]) : xy \in HeaderPaths} \cup {"diff --git"}
BodyLines ==
    {"similarity index 100%", "similarity index 80%", "rename from a", "rename to b",
     "--- a/f", "+++ b/f", "@@ -1,1 +1,2 @@", "+new1", "-old", "old mode 100644"}
DiffLines == HeaderLines \cup BodyLines

\* diff.lines() of every diff text of at most MaxLines lines
DiffTexts == UNION {[1..n -> DiffLines] : n \in 0..MaxLines}

\* The index of the last line among the first n that starts a section, 0 when none
SectionAt(diff, n) ==
    LET hs == {i \in 1..n : starts_with(diff[i], "diff --git")}
    IN  IF hs = {} THEN 0 ELSE CHOOSE i \in hs : \A j \in hs : j <= i

\* The locals of the loop before the first line; pos counts the lines taken from
\* lines_iter, emitted_for is the section each record was pushed for (history)
ParseNew(diff) ==
    [state |-> "scan", diff |-> diff, pos |-> 0,
     current_file |-> "", old_file |-> "", insertions |-> 0, deletions |-> 0,
     file_changes |-> <<>>, is_rename |-> FALSE, similarity_index |-> 0,
     is_in_hunk |-> FALSE, has_content_change |-> FALSE, emitted_for |-> <<>>]

\* The change_type of the accumulated file
change_type(p) ==
    IF p.is_rename
    THEN IF p.similarity_index = 100 THEN "renamed" ELSE "renamed+modified"
    ELSE IF p.insertions > 0 \/ p.deletions > 0 \/ p.has_content_change
         THEN "modified"
         ELSE "unchanged"

\* file_changes.push(...) of the accumulated file
push(p) ==
    [p EXCEPT !.file_changes =
                  Append(@, [new_file |-> p.current_file, old_file |-> p.old_file,
                             ins |-> p.insertions, del |-> p.deletions,
                             change_type |-> change_type(p)]),
              !.emitted_for = Append(@, SectionAt(p.diff, p.pos))]

\* "Save previous file stats if we have them": push and reset, only with a path
save_previous(p) ==
    IF p.current_file # ""
    THEN [push(p) EXCEPT !.current_file = "", !.old_file = "",
                         !.insertions = 0, !.deletions = 0, !.is_rename = FALSE,
                         !.is_in_hunk = FALSE, !.similarity_index = 0,
                         !.has_content_change = FALSE]
    ELSE p

\* "Extract the file names from diff --git a/old b/new"
extract_file_names(p, line) ==
    LET parts == split(line, " ")
    IN  IF Len(parts) >= 4
        THEN [p EXCEPT !.old_file = trim_start_matches(parts[3], "a/"),
                       !.current_file = trim_start_matches(parts[4], "b/")]
        ELSE p

\* "Extract similarity percentage"
extract_similarity(p, line) ==
    LET percent_str == strip_prefix(line, "similarity index ")
    IN  IF percent_str.present /\ ends_with(percent_str.data, "%")
        THEN LET percent == parse_usize(trim_end_matches(percent_str.data, "%"))
             IN  IF percent.ok THEN [p EXCEPT !.similarity_index = percent.value]
                 ELSE p
        ELSE p

\* "Look ahead for rename markers": peek_iter from line i of the text
RECURSIVE look_ahead(_, _)
look_ahead(p, i) ==
    IF i > Len(p.diff) THEN p
    ELSE LET peek_line == p.diff[i]
         IN  IF starts_with(peek_line, "similarity index ")
             THEN look_ahead(extract_similarity(p, peek_line), i + 1)
             ELSE IF starts_with(peek_line, "rename from")
                     \/ starts_with(peek_line, "rename to")
             THEN look_ahead([p EXCEPT !.is_rename = TRUE], i + 1)
             ELSE IF starts_with(peek_line, "--- ") \/ starts_with(peek_line, "+++ ")
             THEN look_ahead([p EXCEPT !.has_content_change = TRUE], i + 1)
             ELSE IF starts_with(peek_line, "@@")
             THEN [p EXCEPT !.has_content_change = TRUE]
             ELSE IF starts_with(peek_line, "diff --git")
             THEN p
             ELSE look_ahead(p, i + 1)

\* The branch of the loop body a line takes
line_kind(p, line) ==
    IF starts_with(line, "diff --git") THEN "header"
    ELSE IF starts_with(line, "similarity index ") THEN "similarity"
    ELSE IF starts_with(line, "rename from") THEN "rename_from"
    ELSE IF starts_with(line, "rename to") THEN "rename_to"
    ELSE IF starts_with(line, "--- ") \/ starts_with(line, "+++ ") THEN "file_marker"
    ELSE IF starts_with(line, "@@") THEN "hunk_header"
    ELSE IF p.is_in_hunk /\ starts_with(line, "+") /\ ~starts_with(line, "+++")
    THEN "insertion"
    ELSE IF p.is_in_hunk /\ starts_with(line, "-") /\ ~starts_with(line, "---")
    THEN "deletion"
    ELSE "other"

\* The loop body for one line
loop_body(p, line) ==
    LET kind == line_kind(p, line)
    IN  IF kind = "header"
        THEN look_ahead(extract_file_names(save_previous(p), line), p.pos + 2)
        ELSE IF kind = "similarity" THEN extract_similarity(p, line)
        ELSE IF kind = "rename_from"
        THEN [p EXCEPT !.is_rename = TRUE,
                       !.old_file = trim_start_matches(line, "rename from ")]
        ELSE IF kind = "rename_to"
        THEN [p EXCEPT !.is_rename = TRUE,
                       !.current_file = trim_start_matches(line, "rename to ")]
        ELSE IF kind = "file_marker" THEN [p EXCEPT !.has_content_change = TRUE]
        ELSE IF kind = "hunk_header"
        THEN [p EXCEPT !.is_in_hunk = TRUE, !.has_content_change = TRUE]
        ELSE IF kind = "insertion" THEN [p EXCEPT !.insertions = @ + 1]
        ELSE IF kind = "deletion" THEN [p EXCEPT !.deletions = @ + 1]
        ELSE p

\* "Add the last file's stats" without the push
add_last_file_dropped(p) == [p EXCEPT !.state = "done"]

\* "Add the last file's stats": the push after the loop, only with a path
add_last_file(p) ==
    [(IF p.current_file # "" THEN push(p) ELSE p) EXCEPT !.state = "done"]

DiffInit ==
    /\ pc = "diff"
    /\ app = AppNew
    /\ cache = CacheNew
    /\ set_log = NoSets
    /\ parse \in {ParseNew(diff) : diff \in DiffTexts}
    /\ now = 0
    /\ last_fetch = NoFetch
    /\ last_op = NoOp
    /\ message = "none"
    /\ raw_mode = FALSE
    /\ alt_screen = FALSE

DiffFrame ==
    UNCHANGED <<pc, app, cache, set_log, now, last_fetch, last_op, message,
                raw_mode, alt_screen>>

\* lines_iter.next() returned a line of the given kind: one turn of the loop
ReadLine(kind) ==
    /\ pc = "diff"
    /\ parse.state = "scan"
    /\ parse.pos < Len(parse.diff)
    /\ LET line == parse.diff[parse.pos + 1]
       IN  /\ line_kind(parse, line) = kind
           /\ parse' = [loop_body(parse, line) EXCEPT !.pos = parse.pos + 1]
    /\ DiffFrame

ReadHeader == ReadLine("header")
ReadSimilarity == ReadLine("similarity")
ReadRenameFrom == ReadLine("rename_from")
ReadRenameTo == ReadLine("rename_to")
ReadFileMarker == ReadLine("file_marker")
ReadHunkHeader == ReadLine("hunk_header")
ReadInsertion == ReadLine("insertion")
ReadDeletion == ReadLine("deletion")
ReadOther == ReadLine("other")

\* lines_iter.next() returned None: the loop ends
EndOfInput ==
    /\ pc = "diff"
    /\ parse.state = "scan"
    /\ parse.pos = Len(parse.diff)
    /\ parse' = add_last_file(parse)
    /\ DiffFrame

DiffNext ==
    \/ ReadHeader
    \/ ReadSimilarity
    \/ ReadRenameFrom
    \/ ReadRenameTo
    \/ ReadFileMarker
    \/ ReadHunkHeader
    \/ ReadInsertion
    \/ ReadDeletion
    \/ ReadOther
    \/ EndOfInput

DiffSpec == DiffInit /\ [][DiffNext]_vars

-----------------------------------------------------------------------------
(* Properties *)

\* clamp(i + d, 0, n - 1) for 0 <= i < n, computed without leaving the i32 range
ClampedMove(i, d, n) ==
    IF d > (n - 1) - i THEN n - 1
    ELSE IF d < -i THEN 0
    ELSE i + d

\* C1: in every reachable state of the program, whenever commits is non-empty,
\* 0 <= selected_index < commits.len().
C1_SelectedIndexInBounds ==
    app.commits # <<>> =>
        (app.selected_index >= 0 /\ app.selected_index < Len(app.commits))

\* C1 witness: Down has moved the selection onto the last of several commits.
C1_Witness ==
    /\ pc = "loop"
    /\ last_op.op = "Down"
    /\ Len(app.commits) >= 2
    /\ app.selected_index = Len(app.commits) - 1

\* C2 (as claimed): a confirm whose commit fetch fails leaves current_branch,
\* commits and selected_index at their values from before the confirm.
C2_FailedFetchKeepsState ==
    [][(last_op' # last_op /\ last_op'.op = "Enter" /\ last_op'.src = "git_err") =>
          /\ app'.current_branch = app.current_branch
          /\ app'.commits = app.commits
          /\ app'.selected_index = app.selected_index]_vars

\* C3 (as claimed): the branch-selector overlay and the author-filter overlay
\* are never both switched on.
C3_OverlaysExclusive ==
    ~(app.show_branch_selector /\ app.show_author_filter)

\* C4 (as claimed): a confirm with a successful fetch sets current_branch to
\* branches[branch_selector_index], shows that branch's fetched commits, resets
\* selected_index to 0 and leaves the view at CommitList with no overlay active.
C4_ConfirmSwitchesBranch ==
    [][(last_op' # last_op /\ last_op'.op = "Enter" /\ last_op'.src = "git_ok") =>
          /\ app'.current_branch = app.branches[app.branch_selector_index + 1]
          /\ \A i \in 1..Len(app'.commits) : app'.commits[i][1] = app'.current_branch
          /\ last_fetch'.branch = app'.current_branch
          /\ app'.selected_index = 0
          /\ view_mode(app') = "CommitList"
          /\ ~app'.show_branch_selector
          /\ ~app'.show_author_filter]_vars

\* C5 (as claimed): confirming the branch whose commit list was fetched less
\* than cache_duration ago does not query the external collaborator again.
C5_NoRefetchWhileFresh ==
    [][(last_op' # last_op /\ last_op'.op = "Enter" /\ last_op'.src # "none") =>
          ~(/\ last_fetch.branch = app'.current_branch
            /\ now - last_fetch.time < cache.cache_duration)]_vars

\* C6: every step that opens the branch selector leaves branch_selector_index at
\* the position of current_branch in branches when it occurs there, and at 0
\* when it does not (including when branches is empty).
C6_OpenResyncsIndex ==
    [][(~app.show_branch_selector /\ app'.show_branch_selector) =>
          IF \E i \in 1..Len(app'.branches) : app'.branches[i] = app'.current_branch
          THEN /\ app'.branch_selector_index < Len(app'.branches)
               /\ app'.branches[app'.branch_selector_index + 1] = app'.current_branch
          ELSE app'.branch_selector_index = 0]_vars

\* C6 witness: the selector was opened with current_branch at a non-zero position.
C6_Witness ==
    /\ pc = "loop"
    /\ last_op.op = "b"
    /\ app.show_branch_selector
    /\ app.branch_selector_index = 1
    /\ app.branches[2] = app.current_branch

\* C7: in every reachable state, whenever branches is non-empty,
\* 0 <= branch_selector_index < branches.len().
C7_BranchIndexInBounds ==
    app.branches # <<>> =>
        (app.branch_selector_index >= 0 /\ app.branch_selector_index < Len(app.branches))

\* C7 witness: Down has moved the selector cursor onto the last of several branches.
C7_Witness ==
    /\ pc = "loop"
    /\ last_op.op = "Down"
    /\ app.show_branch_selector
    /\ Len(app.branches) >= 2
    /\ app.branch_selector_index = Len(app.branches) - 1

\* C8 (as claimed): for non-empty branches and every direction,
\* navigate_branch_selector(direction) sets branch_selector_index to
\* clamp(branch_selector_index + direction, 0, branches.len() - 1).
C8_NavigateClamps ==
    [][(/\ last_op'.op = "navigate_branch_selector"
        /\ last_op' # last_op
        /\ pc' # "panic"
        /\ app.branches # <<>>) =>
          app'.branch_selector_index =
              ClampedMove(app.branch_selector_index, last_op'.arg, Len(app.branches))]_vars

\* C9: Esc returns the view to CommitList whichever overlays were active and
\* leaves commits, selected_index, current_branch and branch_selector_index unchanged.
C9_EscReturnsToCommitList ==
    [][(last_op' # last_op /\ last_op'.op = "Esc") =>
          /\ view_mode(app') = "CommitList"
          /\ ~app'.show_branch_selector
          /\ ~app'.show_author_filter
          /\ app'.commits = app.commits
          /\ app'.selected_index = app.selected_index
          /\ app'.current_branch = app.current_branch
          /\ app'.branch_selector_index = app.branch_selector_index]_vars

\* C9 witness: Esc was handled with both cursors away from 0, and no overlay is left.
C9_Witness ==
    /\ pc = "loop"
    /\ last_op.op = "Esc"
    /\ ~app.show_branch_selector /\ ~app.show_author_filter
    /\ app.selected_index > 0
    /\ app.branch_selector_index > 0

\* C10: when commits is empty, moving the selection up or down is a no-op:
\* selected_index stays 0 and no state field changes.
C10_EmptyCommitsMoveIsNoOp ==
    [][(/\ pc = "loop"
        /\ app.commits = <<>>
        /\ ~app.show_branch_selector
        /\ last_op' # last_op
        /\ last_op'.op \in {"Up", "Down"}) =>
          /\ app' = app
          /\ app'.selected_index = 0
          /\ UNCHANGED <<pc, cache, set_log, parse, message, raw_mode, alt_screen, last_fetch>>]_vars

\* C10 witness: Down was handled on an empty commit list outside the branch selector.
C10_Witness ==
    /\ pc = "loop"
    /\ last_op.op = "Down"
    /\ app.commits = <<>>
    /\ ~app.show_branch_selector
    /\ app.selected_index = 0

\* C11: in each keyspace, get(key) returns the value of the most recent
\* set(key, v) exactly when now - timestamp < cache_duration, and misses
\* otherwise (at now - timestamp = cache_duration it already misses); a later
\* set replaces value and timestamp.
C11_GetReturnsFreshSet ==
    \A space \in Keyspaces : \A k \in KeysOf(space) :
        Get(cache, space, k, now) =
            IF k \in DOMAIN set_log[space]
               /\ now - set_log[space][k].time < cache.cache_duration
            THEN Some(set_log[space][k].data)
            ELSE NoEntry

\* C11 witness: an entry set exactly cache_duration ago is a miss, while one
\* overwritten later with another value is returned.
C11_Witness ==
    /\ pc = "cache"
    /\ cache.cache_duration > 0
    /\ "dev" \in DOMAIN set_log.commits
    /\ now - set_log.commits["dev"].time = cache.cache_duration
    /\ get_commits(cache, "dev", now) = NoEntry
    /\ "main" \in DOMAIN set_log.commits
    /\ get_commits(cache, "main", now) = Some("v2")

\* C12: once clear() has been called, every get in all three keyspaces misses
\* for every key that has not been set again since.
C12_ClearEmptiesAll ==
    set_log.cleared =>
        \A space \in Keyspaces : \A k \in KeysOf(space) :
            k \notin DOMAIN set_log[space] => Get(cache, space, k, now) = NoEntry

\* C12 witness: after a clear, one key was set again and hits while the others miss.
C12_Witness ==
    /\ pc = "cache"
    /\ set_log.cleared
    /\ DOMAIN set_log.commits = {"main"}
    /\ get_commits(cache, "main", now).present
    /\ ~get_commits(cache, "dev", now).present
    /\ ~get_authors(cache, "main", now).present
    /\ ~get_branches(cache, "main", now).present

\* A step that sets key k of keyspace space
SetStep(space, k) ==
    /\ k \in DOMAIN set_log'[space]
    /\ (k \notin DOMAIN set_log[space] \/ set_log'[space][k] # set_log[space][k])

\* C13: a set in one keyspace for key k leaves the result of get unchanged for
\* every other key of that keyspace and for every key, k included, of the two
\* other keyspaces.
C13_KeyspacesIndependent ==
    [][\A space \in Keyspaces : \A k \in KeysOf(space) :
          SetStep(space, k) =>
              \A space2 \in Keyspaces : \A k2 \in KeysOf(space2) :
                  (space2 # space \/ k2 # k) =>
                      Get(cache', space2, k2, now') = Get(cache, space2, k2, now)]_vars

\* C13 witness: the same key string hits in one keyspace and misses in the other two.
C13_Witness ==
    /\ pc = "cache"
    /\ ~set_log.cleared
    /\ get_authors(cache, "main", now).present
    /\ ~get_commits(cache, "main", now).present
    /\ ~get_branches(cache, "main", now).present

\* The messages main prints when it gives up during startup
StartupFailureMessages ==
    {"not_a_repository", "open_failed", "get_branches_failed", "no_valid_branches",
     "get_authors_failed", "get_commits_failed", "no_commits"}

\* C18: a startup step that reports a failure (a failed query, no valid branch,
\* an empty commit list) terminates the program, a terminated program takes no
\* further step, and the loop is entered only from the last startup step, with
\* non-empty commits, selected_index = 0 and no overlay active.
C18_StartupFailuresExit ==
    [][/\ (message' # message /\ message' \in StartupFailureMessages) =>
              (pc # "loop" /\ pc' = "exit_ok")
       /\ (pc \in {"start", "open_repo", "get_branches", "get_authors", "get_commits"}
             /\ pc' \notin {"loop", "open_repo", "get_branches", "get_authors", "get_commits"}) =>
              (pc' = "exit_err" \/ (pc' = "exit_ok" /\ message' \in StartupFailureMessages))
       /\ pc \in {"exit_ok", "exit_err", "panic"} => pc' = pc
       /\ (pc # "loop" /\ pc' = "loop") =>
              /\ pc = "get_commits"
              /\ message' \notin StartupFailureMessages
              /\ app'.commits # <<>>
              /\ app'.selected_index = 0
              /\ ~app'.show_branch_selector
              /\ ~app'.show_author_filter]_vars

\* C18 witness: the commit list came back empty and main ended without entering the loop.
C18_Witness ==
    /\ pc = "exit_ok"
    /\ message = "no_commits"
    /\ last_op = NoOp
    /\ app.commits = <<>>

-----------------------------------------------------------------------------
(* Properties of the diff parsing loop, read off the finished parse: record *)
(* k of file_changes was pushed for the section opened by line              *)
(* emitted_for[k] of the text.                                              *)

Summarized == pc = "diff" /\ parse.state = "done"

\* The lines that begin with `diff --git`, and the lines of the section a header opens:
\* those after it up to the next header or the end of the text
SectionStarts(diff) == {i \in 1..Len(diff) : starts_with(diff[i], "diff --git")}
SectionBody(diff, h) ==
    {i \in (h + 1)..Len(diff) : \A j \in (h + 1)..i : j \notin SectionStarts(diff)}

\* A line of the section follows a hunk header of the section
AfterHunkHeader(diff, h, i) ==
    \E j \in SectionBody(diff, h) : j < i /\ starts_with(diff[j], "@@")

\* The inserted and the deleted lines of a section
SectionInsertions(diff, h) ==
    Cardinality({i \in SectionBody(diff, h) :
                    /\ AfterHunkHeader(diff, h, i)
                    /\ starts_with(diff[i], "+") /\ ~starts_with(diff[i], "+++")})
SectionDeletions(diff, h) ==
    Cardinality({i \in SectionBody(diff, h) :
                    /\ AfterHunkHeader(diff, h, i)
                    /\ starts_with(diff[i], "-") /\ ~starts_with(diff[i], "---")})

\* The rename lines of a section and the path each one names
RenameFromLines(diff, h) ==
    {i \in SectionBody(diff, h) : starts_with(diff[i], "rename from ")}
RenameToLines(diff, h) ==
    {i \in SectionBody(diff, h) : starts_with(diff[i], "rename to ")}
PathAfter(line, prefix) == SubSeq(line, Len(prefix) + 1, Len(line))

\* The similarity a section states: the N of its last `similarity index N%` line
SectionSimilarity(diff, h) ==
    LET ss == {i \in SectionBody(diff, h) : starts_with(diff[i], "similarity index ")}
    IN  IF ss = {} THEN 0
        ELSE LET i == CHOOSE j \in ss : \A k \in ss : k <= j
             IN  IF diff[i] = "similarity index 100%" THEN 100 ELSE 80

\* The flush rule applied to the lines of one section
SectionKind(diff, h) ==
    IF RenameFromLines(diff, h) \cup RenameToLines(diff, h) # {}
    THEN IF SectionSimilarity(diff, h) = 100 THEN "renamed" ELSE "renamed+modified"
    ELSE IF \/ SectionInsertions(diff, h) > 0
            \/ SectionDeletions(diff, h) > 0
            \/ \E i \in SectionBody(diff, h) :
                   \/ starts_with(diff[i], "--- ")
                   \/ starts_with(diff[i], "+++ ")
                   \/ starts_with(diff[i], "@@")
         THEN "modified"
         ELSE "unchanged"

\* A section resolves a new path from its header `diff --git a/X b/Y` or from a
\* `rename to` line
ResolvesNewPath(diff, h) ==
    \/ \E xy \in HeaderPaths : diff[h] = Header(xy[1], xy[2])
    \/ RenameToLines(diff, h) # {}

\* C14: for every diff text containing N lines that begin with `diff --git`, the
\* summarizer emits at most N file-change records, in particular none when N = 0
\* whatever other lines the text contains.
C14_AtMostOneRecordPerHeader ==
    Summarized =>
        Len(parse.file_changes) <= Cardinality(SectionStarts(parse.diff))

\* C15: each emitted record's insertions (deletions) is the number of lines of its
\* own section that start with '+' but not '+++' ('-' but not '---') and follow a
\* hunk header of that section; lines before the section's `diff --git` line,
\* those of a dropped section included, do not contribute.
C15_CountsAreOfOwnSection ==
    Summarized =>
        \A k \in 1..Len(parse.file_changes) :
            LET h == parse.emitted_for[k]
            IN  h >= 1 =>
                    /\ parse.file_changes[k].ins = SectionInsertions(parse.diff, h)
                    /\ parse.file_changes[k].del = SectionDeletions(parse.diff, h)

\* C16: each emitted record is classified by the flush rule applied to its own
\* section: renamed with a rename line and similarity 100, renamed+modified with a
\* rename line and any other similarity (0 without a similarity line), otherwise
\* modified with an insertion, a deletion or a '--- ', '+++ ' or '@@' line,
\* otherwise unchanged.
C16_KindIsOfOwnSection ==
    Summarized =>
        \A k \in 1..Len(parse.file_changes) :
            LET h == parse.emitted_for[k]
            IN  h >= 1 =>
                    parse.file_changes[k].change_type = SectionKind(parse.diff, h)

\* C17: the record of a section introduced by `diff --git a/X b/Y` and holding no
\* rename line has old path exactly X and new path exactly Y, also when X or Y
\* begins with 'a/' or 'b/' or contains a space.
C17_HeaderPathsExact ==
    Summarized =>
        \A k \in 1..Len(parse.file_changes) : \A xy \in HeaderPaths :
            LET h == parse.emitted_for[k]
            IN  /\ h >= 1
                /\ parse.diff[h] = Header(xy[1], xy[2])
                /\ RenameFromLines(parse.diff, h) \cup RenameToLines(parse.diff, h) = {}
                => /\ parse.file_changes[k].old_file = xy[1]
                   /\ parse.file_changes[k].new_file = xy[2]

\* C19: the records are emitted in the order of their sections, one for every
\* section that resolved a new path, the last one included, none twice and none
\* lost.
C19_OneRecordPerSectionInOrder ==
    Summarized =>
        /\ Len(parse.emitted_for) = Len(parse.file_changes)
        /\ \A i, j \in 1..Len(parse.emitted_for) :
               i < j => parse.emitted_for[i] < parse.emitted_for[j]
        /\ {parse.emitted_for[k] : k \in 1..Len(parse.emitted_for)} \ {0}
               = {h \in SectionStarts(parse.diff) : ResolvesNewPath(parse.diff, h)}

\* Two sections with a dropped one between them were summarized
C19_Witness ==
    /\ Summarized
    /\ Len(parse.diff) = 3
    /\ ~ResolvesNewPath(parse.diff, 2)
    /\ parse.emitted_for = <<1, 3>>
    /\ parse.file_changes[1].new_file = "f"
    /\ parse.file_changes[2].new_file = "y"

\* C20: a `rename from` / `rename to` line sets the rename flag; its path becomes
\* the record's old / new path only when the section's header line set none, and
\* a path taken from the header is not overwritten.
C20_RenameKeepsHeaderPaths ==
    Summarized =>
        \A k \in 1..Len(parse.file_changes) :
            LET h == parse.emitted_for[k]
                diff == parse.diff
                from_header == extract_file_names(ParseNew(diff), diff[h])
                froms == RenameFromLines(diff, h)
                tos == RenameToLines(diff, h)
                record == parse.file_changes[k]
            IN  h >= 1 /\ froms \cup tos # {} =>
                    /\ record.change_type \in {"renamed", "renamed+modified"}
                    /\ from_header.old_file # "" =>
                           record.old_file = from_header.old_file
                    /\ from_header.current_file # "" =>
                           record.new_file = from_header.current_file
                    /\ from_header.old_file = "" /\ froms # {} =>
                           \E i \in froms :
                               record.old_file = PathAfter(diff[i], "rename from ")
                    /\ from_header.current_file = "" /\ tos # {} =>
                           \E i \in tos :
                               record.new_file = PathAfter(diff[i], "rename to ")

\* C21: an Up or Down key is routed by the overlay: while the branch selector is
\* shown it can change only branch_selector_index (selected_index, commits and
\* current_branch stay); otherwise it can change only selected_index
\* (branch_selector_index and current_branch stay), also while only the author
\* filter is shown.
C21_UpDownRoutedByOverlay ==
    [][(last_op' # last_op /\ last_op'.op \in {"Up", "Down"}) =>
          IF app.show_branch_selector
          THEN /\ app'.selected_index = app.selected_index
               /\ app'.commits = app.commits
               /\ app'.current_branch = app.current_branch
               /\ app' = [app EXCEPT !.branch_selector_index = app'.branch_selector_index]
          ELSE /\ app'.branch_selector_index = app.branch_selector_index
               /\ app'.current_branch = app.current_branch
               /\ app' = [app EXCEPT !.selected_index = app'.selected_index]]_vars

\* C21 witness: with the branch selector shown over the second commit of the
\* second branch, an Up key moved the selector's cursor to the first branch.
C21_Witness ==
    /\ pc = "loop"
    /\ last_op.op = "Up"
    /\ app.show_branch_selector
    /\ Len(app.branches) = 2
    /\ app.current_branch = app.branches[2]
    /\ app.branch_selector_index = 0
    /\ app.selected_index = 1

\* C22: every method of App completes for every state and every argument, every
\* i32 direction of navigate_branch_selector included (no overflow fault, no
\* out-of-bounds fault), and a direction that leads out of range never wraps
\* the index around: the index moves by exactly the direction or stays.
C22_TransitionsTotal ==
    [][/\ pc' # "panic"
       /\ (last_op' # last_op /\ last_op'.op = "navigate_branch_selector") =>
              \/ app'.branch_selector_index = app.branch_selector_index
              \/ /\ ~OverflowsI32(app.branch_selector_index, last_op'.arg)
                 /\ app'.branch_selector_index
                        = app.branch_selector_index + last_op'.arg]_vars

\* C23: whenever main has returned after raw mode and the alternate screen were
\* enabled (by quit, or by a startup early exit: not a repository, a failed
\* branch, author or commit query, no commits), raw mode is disabled and the
\* alternate screen is left.
C23_TerminalRestoredOnReturn ==
    pc = "exit_ok" => ~raw_mode /\ ~alt_screen

\* C24: expiry is judged against the cache_duration in force at the get, not at
\* the set: after set_cache_duration, with no set in between, an entry is a hit
\* exactly when the new duration exceeds its age (an expired entry is returned
\* again, a fresh one is missed), and with duration 0 every get misses, also
\* right after a set.
C24_ExpiryUsesCurrentDuration ==
    [][/\ cache'.cache_duration # cache.cache_duration =>
              \A space \in Keyspaces : \A k \in KeysOf(space) :
                  k \in DOMAIN set_log[space] =>
                      Get(cache', space, k, now') =
                          IF now - set_log[space][k].time < cache'.cache_duration
                          THEN Some(set_log[space][k].data)
                          ELSE NoEntry
       /\ cache'.cache_duration = 0 =>
              \A space \in Keyspaces : \A k \in KeysOf(space) :
                  Get(cache', space, k, now') = NoEntry]_vars

\* C24 witness: under a duration changed to 2, an entry of age 1 is a hit and an
\* entry of age 2 is a miss.
C24_Witness ==
    /\ pc = "cache"
    /\ cache.cache_duration = 2
    /\ DOMAIN set_log.commits = {"main", "dev"}
    /\ now - set_log.commits["main"].time = 1
    /\ now - set_log.commits["dev"].time = 2
    /\ get_commits(cache, "main", now).present
    /\ ~get_commits(cache, "dev", now).present

\* C25: when the clock reads earlier than an entry's timestamp, get misses in
\* all three keyspaces instead of treating the entry as fresh, and the entry
\* stays stored, unchanged, until a set overwrites it or clear removes it.
C25_ClockBackwardsMisses ==
    [][\A space \in Keyspaces :
          /\ \A k \in DOMAIN cache'[space] :
                 now' < cache'[space][k].timestamp =>
                     Get(cache', space, k, now') = NoEntry
          /\ \A k \in DOMAIN cache[space] :
                 set_log' = set_log =>
                     /\ k \in DOMAIN cache'[space]
                     /\ cache'[space][k] = cache[space][k]]_vars

\* C25 witness: each keyspace holds an entry stamped later than the clock now
\* reads, and every get of it misses although the duration exceeds its age.
C25_Witness ==
    /\ pc = "cache"
    /\ cache.cache_duration = 300
    /\ \A space \in Keyspaces :
           /\ "main" \in DOMAIN cache[space]
           /\ cache[space]["main"].timestamp > now
           /\ Get(cache, space, "main", now) = NoEntry

====
